---- MODULE Spec2Model ----
(***************************************************************************)
(* A model of stac_vrt.build_vrt (src/stac_vrt.py): the construction of a  *)
(* GDAL VRT mosaic descriptor from STAC item metadata.                     *)
(*                                                                         *)
(* build_vrt is a pure function.  The state machine below is one call of   *)
(* it: `args` holds the arguments (chosen in Init), the other variables    *)
(* are the function's locals, and each action is one block of statements   *)
(* of the function body, in program order.  A raised exception ends the    *)
(* call with pc = "raised" and the exception in `error`; a return ends it  *)
(* with pc = "done" and the descriptor in `result`.                        *)
(*                                                                         *)
(* Conventions.  An optional value (a keyword argument that may be None,   *)
(* a dict key that may be missing) is a sequence of length 0 or 1.         *)
(* Coordinates and resolutions are integers (a fixed-point grid), and the  *)
(* arithmetic of affine.Affine is exact on them: a pixel coordinate is a   *)
(* fraction [num, den] and int() truncates it toward zero.  The arguments  *)
(* data_type, block_width and block_height are copied into the text        *)
(* unchanged and are left out.                                             *)
(***************************************************************************)
EXTENDS Integers, Sequences, FiniteSets, TLC

(* ---- bounds of the explored inputs ---- *)
MaxItems == 2
MaxCoord == 3
MaxRes == 2
MaxBands == 2

(* ---- optional values ---- *)
None == <<>>
Some(v) == <<v>>
IsNone(o) == o = <<>>
Get(o) == o[1]

(* ---- exceptions ---- *)
(* One record shape for every exception: `type` is the Python class, `kind` *)
(* the condition, `what` the field or argument named in the message, and    *)
(* a, b, id, pos the values formatted into the message.                     *)
Exc(type, kind, what, a, b, id, pos) ==
  [type |-> type, kind |-> kind, what |-> what, a |-> a, b |-> b, id |-> id, pos |-> pos]
NoError == Exc("", "none", "", 0, 0, "", 0)
EmptyInput == Exc("ValueError", "EmptyInput", "Must provide at least one stac item", 0, 0, "", 0)
MissingCrs == Exc("KeyError", "MissingField", "proj:epsg", 0, 0, "", 0)
MissingKey(key) == Exc("KeyError", "KeyError", key, 0, 0, "", 0)
LengthMismatch(what, k, n) == Exc("ValueError", "LengthMismatch", what, k, n, "", 0)
CrsMismatch(id, pos, image_crs, code) == Exc("ValueError", "CrsMismatch", "same CRS", image_crs, code, id, pos)
BandIndexError(pos) == Exc("IndexError", "IndexError", "simple_sources", 0, 0, "", pos)
NotInvertible == Exc("TransformNotInvertibleError", "NotInvertible", "transform", 0, 0, "", 0)

(* ---- data ---- *)
(* rasterio.coords.BoundingBox(left, bottom, right, top) *)
BoundingBox(l, b, r, t) == [left |-> l, bottom |-> b, right |-> r, top |-> t]

(* pyproj.CRS: the object is known here by the EPSG code it reports, which *)
(* is None for a CRS that is not an EPSG one.                              *)
from_epsg(code) == [authority |-> "EPSG", code |-> Some(code)]
CustomCrs == [authority |-> "custom", code |-> None]
to_epsg(c) == c.code

(* rasterio.warp.transform_bounds("epsg:4326", crs, left, bottom, right,   *)
(* top): the external reprojection.  Its numbers are not this program's;   *)
(* the stand-in is a translation that depends on the target CRS, so that a *)
(* reprojected box is never mistaken for the box it came from.             *)
CrsShift(c) == IF IsNone(to_epsg(c)) THEN 3 ELSE Get(to_epsg(c))
transform_bounds(c, box) ==
  BoundingBox(box.left + CrsShift(c), box.bottom + CrsShift(c),
              box.right + CrsShift(c), box.top + CrsShift(c))

Abs(x) == IF x < 0 THEN 0 - x ELSE x
(* int() of the fraction num/den: truncation toward zero *)
TruncDiv(num, den) ==
  IF (num >= 0) = (den > 0) THEN Abs(num) \div Abs(den) ELSE 0 - (Abs(num) \div Abs(den))
Frac(num, den) == [num |-> num, den |-> den]
int(q) == TruncDiv(q.num, q.den)

Min(S) == CHOOSE x \in S : \A y \in S : x <= y
Max(S) == CHOOSE x \in S : \A y \in S : x >= y

(* the outcome of a helper that may raise: the exception, or the value *)
Raise(e) == [error |-> e, value |-> <<>>]
Return(v) == [error |-> NoError, value |-> v]
Raised(r) == r.error # NoError

(* ---- dict lookups of a STAC item ---- *)
(* stac_item["properties"][key]: KeyError on the first missing key *)
HasProperties(item) == ~IsNone(item.properties)
HasProperty(item, key) == HasProperties(item) /\ ~IsNone(Get(item.properties)[key])
Property(item, key) == Get(Get(item.properties)[key])
PropertyKeyError(item, key) ==
  IF ~HasProperties(item) THEN MissingKey("properties") ELSE MissingKey(key)

(* ---- src/stac_vrt.py:17 _build_bboxes ---- *)
ProjBboxOf(item) ==
  IF HasProperty(item, "proj:bbox")
    THEN Return(Property(item, "proj:bbox"))
    ELSE Raise(PropertyKeyError(item, "proj:bbox"))
WarpedBboxOf(item, c) ==
  IF IsNone(item.bbox) THEN Raise(MissingKey("bbox"))
  ELSE Return(transform_bounds(c, Get(item.bbox)))
(* a list comprehension / append loop: the first element that raises ends it *)
Collect(outcomes) ==
  LET bad == {k \in DOMAIN outcomes : Raised(outcomes[k])}
  IN IF bad # {} THEN Raise(outcomes[Min(bad)].error)
     ELSE Return([k \in DOMAIN outcomes |-> outcomes[k].value])
has_proj_bbox(stac_items) == HasProperty(stac_items[1], "proj:bbox")
_build_bboxes(stac_items, c) ==
  IF ~HasProperties(stac_items[1]) THEN Raise(MissingKey("properties"))
  ELSE IF has_proj_bbox(stac_items)
    THEN Collect([k \in DOMAIN stac_items |-> ProjBboxOf(stac_items[k])])
    ELSE Collect([k \in DOMAIN stac_items |-> WarpedBboxOf(stac_items[k], c)])

(* a variant of _build_bbox: maxima[1] for the top instead of maxima[3] *)
_build_bbox_top_of_bottoms(bbs) ==
  BoundingBox(Min({bbs[k].left : k \in DOMAIN bbs}),
              Min({bbs[k].bottom : k \in DOMAIN bbs}),
              Max({bbs[k].right : k \in DOMAIN bbs}),
              Max({bbs[k].bottom : k \in DOMAIN bbs}))
(* ---- src/stac_vrt.py:38 _build_bbox ---- *)
_build_bbox(bbs) ==
  BoundingBox(Min({bbs[k].left : k \in DOMAIN bbs}),
              Min({bbs[k].bottom : k \in DOMAIN bbs}),
              Max({bbs[k].right : k \in DOMAIN bbs}),
              Max({bbs[k].top : k \in DOMAIN bbs}))

(* ---- src/stac_vrt.py:47 build_transform ---- *)
Affine(a, b, c, d, e, f) == [a |-> a, b |-> b, c |-> c, d |-> d, e |-> e, f |-> f]
(* a variant of build_transform: the origin at the bottom of the extent *)
build_transform_at_bottom(bbox, rx, ry) == Affine(rx, 0, bbox.left, 0, 0 - ry, bbox.bottom)
build_transform(bbox, rx, ry) == Affine(rx, 0, bbox.left, 0, 0 - ry, bbox.top)
(* affine.Affine.__invert__ raises when the determinant a*e - b*d is zero *)
Invertible(t) == t.a * t.e - t.b * t.d # 0
(* a variant of InvApply: the origin (c, f) of the transform left out *)
InvApplyLinear(t, x, y) == [col |-> Frac(x, t.a), row |-> Frac(y, t.e)]
(* (~t) * (x, y) for a transform without rotation (b = d = 0), exactly *)
InvApply(t, x, y) == [col |-> Frac(x - t.c, t.a), row |-> Frac(y - t.f, t.e)]
(* t * (col, row) *)
Apply(t, col, row) == [x |-> t.a * col + t.b * row + t.c, y |-> t.d * col + t.e * row + t.f]
to_gdal(t) == <<t.c, t.a, t.b, t.f, t.d, t.e>>

(* ---- URLs: a sequence of one-character strings ---- *)
HttpPrefix == <<"h", "t", "t", "p">>
VsiCurl == <<"/", "v", "s", "i", "c", "u", "r", "l", "/">>
startswith(s, prefix) == Len(s) >= Len(prefix) /\ SubSeq(s, 1, Len(prefix)) = prefix
(* src/stac_vrt.py:228-230 *)
SourceUrl(add_prefix, href) ==
  IF add_prefix /\ startswith(href, HttpPrefix) THEN VsiCurl \o href ELSE href

(* ---- the descriptor ---- *)
(* _simple_source_template, src/stac_vrt.py:80-89 *)
SimpleSource(url, band_number, width, height, x_off, y_off) ==
  [SourceFilename |-> url,
   SourceBand |-> band_number,
   SrcRect |-> [xOff |-> 0, yOff |-> 0, xSize |-> width, ySize |-> height],
   DstRect |-> [xOff |-> x_off, yOff |-> y_off, xSize |-> width, ySize |-> height]]
(* _raster_band_template, src/stac_vrt.py:71-75 *)
RasterBand(band_number, color_interp, sources) ==
  [band |-> band_number, ColorInterp |-> color_interp, sources |-> sources]
(* _vrt_template, src/stac_vrt.py:63-69 *)
VRTDataset(width, height, srs, transform, raster_bands) ==
  [rasterXSize |-> width, rasterYSize |-> height, SRS |-> srs,
   GeoTransform |-> transform, bands |-> raster_bands]

(* ---- the call ---- *)
VARIABLES
  args,            \* the arguments of the call: stac_items, crs, res_x, res_y, shapes, bboxes, add_prefix
  pc,              \* the next block of build_vrt, or "raised" / "done"
  error,           \* the exception raised, NoError while none
  crs, crs_code, res_x, res_y, bboxes, shapes,   \* the rebound parameters
  out_bbox, out_transform, out_width, out_height,
  image,           \* the local `image` (rebound inside the item loop)
  simple_sources,  \* one list of SimpleSource per band of the first item
  i,               \* items the loop of line 216 has gone through
  rendered_bands,
  result           \* the returned descriptor, None until the return

vars == <<args, pc, error, crs, crs_code, res_x, res_y, bboxes, shapes, out_bbox,
          out_transform, out_width, out_height, image, simple_sources, i,
          rendered_bands, result>>

stac_items == args.stac_items
add_prefix == args.add_prefix
NoImage == [href |-> <<>>, bands |-> <<>>]

Entry(a) ==
  /\ args = a
  /\ pc = "check_items"
  /\ error = NoError
  /\ crs = a.crs
  /\ crs_code = None
  /\ res_x = a.res_x
  /\ res_y = a.res_y
  /\ bboxes = a.bboxes
  /\ shapes = a.shapes
  /\ out_bbox = BoundingBox(0, 0, 0, 0)
  /\ out_transform = Affine(0, 0, 0, 0, 0, 0)
  /\ out_width = 0
  /\ out_height = 0
  /\ image = NoImage
  /\ simple_sources = <<>>
  /\ i = 0
  /\ rendered_bands = <<>>
  /\ result = None

(* raise e: the call ends, nothing is returned *)
RaiseFrom(e, unch) ==
  /\ pc' = "raised"
  /\ error' = e
  /\ UNCHANGED unch

(* a variant of NoItems: the emptiness test left out *)
NoItemsUnchecked(items) == FALSE
(* src/stac_vrt.py:165-166 *)
NoItems(items) == Len(items) = 0
CheckItems ==
  /\ pc = "check_items"
  /\ IF NoItems(stac_items)
       THEN RaiseFrom(EmptyInput, <<>>)
       ELSE pc' = "resolve_crs" /\ UNCHANGED error
  /\ UNCHANGED <<args, crs, crs_code, res_x, res_y, bboxes, shapes, out_bbox,
                 out_transform, out_width, out_height, image, simple_sources, i,
                 rendered_bands, result>>

(* src/stac_vrt.py:168-177: the CRS of the mosaic and its EPSG code *)
(* a variant of CrsFromItems: the first item that declares a CRS decides *)
CrsFromAnyItem(items) ==
  LET with == {k \in DOMAIN items : HasProperty(items[k], "proj:epsg")}
  IN IF with # {} THEN Return(from_epsg(Property(items[Min(with)], "proj:epsg")))
     ELSE Raise(MissingCrs)
CrsFromItems(items) ==
  IF HasProperty(items[1], "proj:epsg")
    THEN Return(from_epsg(Property(items[1], "proj:epsg")))
    ELSE Raise(MissingCrs)
ResolvedCrs(option, items) ==
  IF IsNone(option) THEN CrsFromItems(items) ELSE Return(Get(option))
ResolveCrs ==
  /\ pc = "resolve_crs"
  /\ LET r == ResolvedCrs(crs, stac_items)
     IN IF Raised(r)
          THEN RaiseFrom(r.error, <<crs, crs_code>>)
          ELSE /\ crs' = Some(r.value)
               /\ crs_code' = to_epsg(r.value)
               /\ pc' = "resolve_res"
               /\ UNCHANGED error
  /\ UNCHANGED <<args, res_x, res_y, bboxes, shapes, out_bbox,
                 out_transform, out_width, out_height, image, simple_sources, i,
                 rendered_bands, result>>

(* src/stac_vrt.py:179-184: `v or d` takes d when v is None or 0 *)
Falsy(o) == IsNone(o) \/ Get(o) = 0
Or(o, d) == IF Falsy(o) THEN d ELSE Get(o)
ResolveRes ==
  /\ pc = "resolve_res"
  /\ IF IsNone(res_x) \/ IsNone(res_y)
       THEN IF ~HasProperty(stac_items[1], "proj:transform")
              THEN RaiseFrom(PropertyKeyError(stac_items[1], "proj:transform"), <<res_x, res_y>>)
              ELSE LET trn == SubSeq(Property(stac_items[1], "proj:transform"), 1, 6)
                   IN /\ res_x' = Some(Or(res_x, trn[1]))
                      /\ res_y' = Some(Or(res_y, Abs(trn[5])))
                      /\ pc' = "resolve_bboxes"
                      /\ UNCHANGED error
       ELSE pc' = "resolve_bboxes" /\ UNCHANGED <<error, res_x, res_y>>
  /\ UNCHANGED <<args, crs, crs_code, bboxes, shapes, out_bbox,
                 out_transform, out_width, out_height, image, simple_sources, i,
                 rendered_bands, result>>

(* src/stac_vrt.py:186-192 *)
(* a variant of WrongLength: only a list that is too short is rejected *)
WrongLengthShort(supplied, items) == Len(supplied) < Len(items)
WrongLength(supplied, items) == Len(supplied) # Len(items)
ResolvedBboxes(option, items, c) ==
  IF IsNone(option) THEN _build_bboxes(items, c)
  ELSE IF WrongLength(Get(option), items)
    THEN Raise(LengthMismatch("bboxes", Len(Get(option)), Len(items)))
    ELSE Return(Get(option))
ResolveBboxes ==
  /\ pc = "resolve_bboxes"
  /\ LET r == ResolvedBboxes(bboxes, stac_items, Get(crs))
     IN IF Raised(r)
          THEN RaiseFrom(r.error, <<bboxes>>)
          ELSE bboxes' = Some(r.value) /\ pc' = "resolve_shapes" /\ UNCHANGED error
  /\ UNCHANGED <<args, crs, crs_code, res_x, res_y, shapes, out_bbox,
                 out_transform, out_width, out_height, image, simple_sources, i,
                 rendered_bands, result>>

(* src/stac_vrt.py:194-201 *)
ShapeOf(item) ==
  IF HasProperty(item, "proj:shape")
    THEN Return(Property(item, "proj:shape"))
    ELSE Raise(PropertyKeyError(item, "proj:shape"))
ResolvedShapes(option, items) ==
  IF IsNone(option) THEN Collect([k \in DOMAIN items |-> ShapeOf(items[k])])
  ELSE IF WrongLength(Get(option), items)
    THEN Raise(LengthMismatch("shapes", Len(Get(option)), Len(items)))
    ELSE Return(Get(option))
ResolveShapes ==
  /\ pc = "resolve_shapes"
  /\ LET r == ResolvedShapes(shapes, stac_items)
     IN IF Raised(r)
          THEN RaiseFrom(r.error, <<shapes>>)
          ELSE shapes' = Some(r.value) /\ pc' = "build_grid" /\ UNCHANGED error
  /\ UNCHANGED <<args, crs, crs_code, res_x, res_y, bboxes, out_bbox,
                 out_transform, out_width, out_height, image, simple_sources, i,
                 rendered_bands, result>>

(* a variant of OutSize: the size rounded up to whole pixels *)
OutSizeRoundedUp(t, bbox) ==
  [width |-> (bbox.right - t.c + t.a - 1) \div t.a,
   height |-> (t.f - bbox.bottom - t.e - 1) \div (0 - t.e)]
(* src/stac_vrt.py:203-206: extent, transform and size of the mosaic *)
OutSize(t, bbox) ==
  LET p == InvApply(t, bbox.right, bbox.bottom)
  IN [width |-> int(p.col), height |-> int(p.row)]
BuildGrid ==
  /\ pc = "build_grid"
  /\ LET box == _build_bbox(Get(bboxes))
         t == build_transform(box, Get(res_x), Get(res_y))
     IN /\ out_bbox' = box
        /\ out_transform' = t
        /\ IF ~Invertible(t)
             THEN RaiseFrom(NotInvertible, <<out_width, out_height>>)
             ELSE /\ out_width' = OutSize(t, box).width
                  /\ out_height' = OutSize(t, box).height
                  /\ pc' = "init_sources"
                  /\ UNCHANGED error
  /\ UNCHANGED <<args, crs, crs_code, res_x, res_y, bboxes, shapes,
                 image, simple_sources, i, rendered_bands, result>>

(* src/stac_vrt.py:208-214: stac_items[0]["assets"]["image"], one empty list per band of it *)
InitSources ==
  /\ pc = "init_sources"
  /\ IF IsNone(stac_items[1].image)
       THEN RaiseFrom(MissingKey("assets"), <<image, simple_sources>>)
       ELSE /\ image' = Get(stac_items[1].image)
            /\ simple_sources' = [j \in 1..Len(Get(stac_items[1].image).bands) |-> <<>>]
            /\ pc' = "place"
            /\ UNCHANGED error
  /\ UNCHANGED <<args, crs, crs_code, res_x, res_y, bboxes, shapes, out_bbox,
                 out_transform, out_width, out_height, i, rendered_bands, result>>

(* src/stac_vrt.py:219-220: stac_item.get("properties", {}).get("proj:epsg"), *)
(* and the test `image_crs and image_crs != crs_code`                         *)
(* a variant of ItemCrs: only the first item's CRS is looked at *)
ItemCrsOfFirst(item) ==
  IF HasProperty(stac_items[1], "proj:epsg")
    THEN Some(Property(stac_items[1], "proj:epsg")) ELSE None
ItemCrs(item) == IF HasProperty(item, "proj:epsg") THEN Some(Property(item, "proj:epsg")) ELSE None
CrsConflict(image_crs, code) == ~Falsy(image_crs) /\ image_crs # code
CodeText(code) == IF IsNone(code) THEN 0 ELSE Get(code)
(* a variant of Offset: the bottom-left corner instead of the top-left *)
OffsetOfBottomLeft(t, bbox) ==
  LET p == InvApply(t, bbox.left, bbox.bottom)
  IN [x_off |-> int(p.col), y_off |-> int(p.row)]
(* src/stac_vrt.py:226 and 241-242 *)
Offset(t, bbox) ==
  LET p == InvApply(t, bbox.left, bbox.top)
  IN [x_off |-> int(p.col), y_off |-> int(p.row)]
(* a variant of ItemSource: the shape read as (width, height) *)
ItemSourceWidthFirst(img, j, shape, off) ==
  SimpleSource(SourceUrl(add_prefix, img.href), j, shape[1], shape[2], off.x_off, off.y_off)
(* src/stac_vrt.py:227-244: the sources of one item, appended band by band *)
ItemSource(img, j, shape, off) ==
  SimpleSource(SourceUrl(add_prefix, img.href), j, shape[2], shape[1], off.x_off, off.y_off)
AppendSources(lists, img, shape, off) ==
  [j \in DOMAIN lists |->
     IF j <= Len(img.bands) THEN Append(lists[j], ItemSource(img, j, shape, off)) ELSE lists[j]]

(* src/stac_vrt.py:216-244: one turn of the loop over the items *)
PlaceItem ==
  /\ pc = "place"
  /\ i < Len(stac_items)
  /\ LET k == i + 1
         stac_item == stac_items[k]
         bbox == Get(bboxes)[k]
         shape == Get(shapes)[k]
         image_crs == ItemCrs(stac_item)
     IN IF CrsConflict(image_crs, crs_code)
          THEN RaiseFrom(CrsMismatch(stac_item.id, i, Get(image_crs), CodeText(crs_code)),
                         <<image, simple_sources, i>>)
          ELSE IF IsNone(stac_item.image)
            THEN RaiseFrom(MissingKey("assets"), <<image, simple_sources, i>>)
            ELSE LET img == Get(stac_item.image)
                 IN /\ image' = img
                    /\ IF Len(img.bands) > Len(simple_sources)
                         THEN RaiseFrom(BandIndexError(i), <<simple_sources, i>>)
                         ELSE /\ simple_sources' =
                                   AppendSources(simple_sources, img, shape,
                                                 Offset(out_transform, bbox))
                              /\ i' = k
                              /\ pc' = IF k = Len(stac_items) THEN "render" ELSE "place"
                              /\ UNCHANGED error
  /\ UNCHANGED <<args, crs, crs_code, res_x, res_y, bboxes, shapes, out_bbox,
                 out_transform, out_width, out_height, rendered_bands, result>>

(* src/stac_vrt.py:246-257: one band block per band of `image` *)
RenderedBands(img, sources) ==
  [n \in 1..Len(img.bands) |-> RasterBand(n, img.bands[n].name, sources[n])]
RenderBands ==
  /\ pc = "render"
  /\ IF Len(image.bands) > Len(simple_sources)
       THEN RaiseFrom(BandIndexError(i), <<rendered_bands>>)
       ELSE /\ rendered_bands' = RenderedBands(image, simple_sources)
            /\ pc' = "emit"
            /\ UNCHANGED error
  /\ UNCHANGED <<args, crs, crs_code, res_x, res_y, bboxes, shapes, out_bbox,
                 out_transform, out_width, out_height, image, simple_sources, i,
                 result>>

(* src/stac_vrt.py:259-267 *)
Emit ==
  /\ pc = "emit"
  /\ result' = Some(VRTDataset(out_width, out_height, Get(crs),
                               to_gdal(out_transform), rendered_bands))
  /\ pc' = "done"
  /\ UNCHANGED <<args, error, crs, crs_code, res_x, res_y, bboxes, shapes, out_bbox,
                 out_transform, out_width, out_height, image, simple_sources, i,
                 rendered_bands>>

Next ==
  \/ CheckItems
  \/ ResolveCrs
  \/ ResolveRes
  \/ ResolveBboxes
  \/ ResolveShapes
  \/ BuildGrid
  \/ InitSources
  \/ PlaceItem
  \/ RenderBands
  \/ Emit

(* ---- the explored arguments ---- *)
(* A STAC item: the keys build_vrt reads.  `image` is item["assets"]["image"]. *)
Properties(epsg, proj_bbox, proj_shape, proj_transform) ==
  ("proj:epsg" :> epsg) @@ ("proj:bbox" :> proj_bbox) @@
  ("proj:shape" :> proj_shape) @@ ("proj:transform" :> proj_transform)
StacItem(id, properties, bbox, img) ==
  [id |-> id, properties |-> properties, bbox |-> bbox, image |-> img]
Image(href, bands) == [href |-> href, bands |-> bands]
Band(name) == [name |-> name]
Args(items, c, rx, ry, shps, bbs, prefix) ==
  [stac_items |-> items, crs |-> c, res_x |-> rx, res_y |-> ry,
   shapes |-> shps, bboxes |-> bbs, add_prefix |-> prefix]

Codes == {26917, 26918}
CrsOptions == {None, Some(CustomCrs)} \cup {Some(from_epsg(c)) : c \in Codes}
Resolutions == 1..MaxRes
ResOptions == {None} \cup {Some(r) : r \in Resolutions}
Lengths == 1..MaxItems
Names == {"red", "green"}
HttpUrl == <<"h", "t", "t", "p", ":", "/", "/", "x">>
HttpsUrl == <<"h", "t", "t", "p", "s", ":", "/", "/", "x">>
LocalUrl == <<"/", "d", "/", "h", "t", "t", "p">>
HttpDirUrl == <<"h", "t", "t", "p", "d", "/", "x">>
Urls == {HttpUrl, HttpsUrl, LocalUrl, HttpDirUrl, VsiCurl \o HttpUrl}

(* what item k of a list carries when nothing about it is varied *)
IdOf(k) == ToString(k)
ShapeAt(k) == <<k + 1, k>>
ProjBoxAt(k) == BoundingBox(k, 0, k + 2, 1)
NativeBoxAt(k) == BoundingBox(0, k, 1, k + 3)
Trn6(rx, ry) == <<rx, 0, 0, 0, 0 - ry, 0>>
Trn9(rx, ry) == Trn6(rx, ry) \o <<0, 0, 1>>
OneBand == Image(HttpUrl, <<Band("red")>>)
PlainItem(k, epsg) ==
  StacItem(IdOf(k),
           Some(Properties(epsg, Some(ProjBoxAt(k)), Some(ShapeAt(k)), Some(Trn6(1, 1)))),
           Some(NativeBoxAt(k)), Some(OneBand))
(* an item without properties, bbox or assets, as {"test": 1} in the tests *)
BareItem(k) == StacItem(IdOf(k), None, None, None)
ShapesAt(n) == [k \in 1..n |-> ShapeAt(k)]
ProjBoxesAt(n) == [k \in 1..n |-> ProjBoxAt(k)]
Repeat(n, v) == [k \in 1..n |-> v]

(* no items, with every combination of the other arguments *)
EmptyInputs ==
  \E c \in CrsOptions, rx \in ResOptions, ry \in ResOptions, prefix \in BOOLEAN :
    \E shps \in {None} \cup {Some(Repeat(n, ShapeAt(1))) : n \in 0..MaxItems},
       bbs \in {None} \cup {Some(Repeat(n, ProjBoxAt(1))) : n \in 0..MaxItems} :
      Entry(Args(<<>>, c, rx, ry, shps, bbs, prefix))

(* bare and plain items, with bboxes and shapes of every length up to one more *)
(* than the number of items                                                    *)
LengthInputs ==
  \E n \in Lengths : \E bare \in [1..n -> BOOLEAN], c \in CrsOptions, r \in {None, Some(1)} :
    \E shps \in {None} \cup {Some(ShapesAt(m)) : m \in 0..(MaxItems + 1)},
       bbs \in {None} \cup {Some(ProjBoxesAt(m)) : m \in 0..(MaxItems + 1)} :
      Entry(Args([k \in 1..n |-> IF bare[k] THEN BareItem(k) ELSE PlainItem(k, Some(26917))],
                 c, r, r, shps, bbs, TRUE))

(* items that declare one CRS or the other or none, or have no properties at  *)
(* all, with an image of one band, of two bands or without assets             *)
CrsItemKinds ==
  {[epsg |-> e, props |-> p, image |-> g] :
     e \in {None} \cup {Some(c) : c \in Codes}, p \in BOOLEAN,
     g \in {None, Some(OneBand), Some(Image(HttpUrl, <<Band("red"), Band("green")>>))}}
CrsItem(k, kind) ==
  StacItem(IdOf(k),
           IF kind.props
             THEN Some(Properties(kind.epsg, Some(ProjBoxAt(k)), Some(ShapeAt(k)), Some(Trn6(1, 1))))
             ELSE None,
           Some(NativeBoxAt(k)), kind.image)
CrsInputs ==
  \E n \in Lengths :
    \E kinds \in [1..n -> {kd \in CrsItemKinds : kd.props \/ kd.epsg = None}],
       c \in CrsOptions, supplied \in BOOLEAN :
      Entry(Args([k \in 1..n |-> CrsItem(k, kinds[k])], c, Some(1), Some(1),
                 IF supplied THEN Some(ShapesAt(n)) ELSE None,
                 IF supplied THEN Some(ProjBoxesAt(n)) ELSE None, TRUE))

(* items with or without proj:transform (of 6 or 9 coefficients) and          *)
(* proj:shape, with each resolution absent, zero or positive                  *)
FieldItemKinds ==
  {[trn |-> t, shape |-> sh] :
     t \in {None, Some(Trn9(1, MaxRes))} \cup {Some(Trn6(r, r)) : r \in Resolutions},
     sh \in BOOLEAN}
FieldItem(k, kind) ==
  StacItem(IdOf(k),
           Some(Properties(Some(26917), Some(ProjBoxAt(k)),
                           IF kind.shape THEN Some(ShapeAt(k)) ELSE None, kind.trn)),
           Some(NativeBoxAt(k)), Some(OneBand))
FieldInputs ==
  \E n \in Lengths :
    \E kinds \in [1..n -> FieldItemKinds],
       rx \in ResOptions \cup {Some(0)}, ry \in ResOptions \cup {Some(0)} :
      Entry(Args([k \in 1..n |-> FieldItem(k, kinds[k])], None, rx, ry, None, None, TRUE))

(* well-formed boxes (left <= right, bottom <= top) supplied as `bboxes`:     *)
(* varied along x with every res_x, along y with every res_y, and over the    *)
(* corners of the coordinate range with every pair of resolutions             *)
Coords == 0..MaxCoord
BoxesAlongX == {BoundingBox(l, 0, r, MaxCoord) : l \in Coords, r \in Coords}
BoxesAlongY == {BoundingBox(0, b, MaxCoord, t) : b \in Coords, t \in Coords}
CornerBoxes ==
  {BoundingBox(l, b, r, t) : l \in {0, MaxCoord}, b \in {0, MaxCoord},
                             r \in {0, MaxCoord}, t \in {0, MaxCoord}}
WellFormedBox(box) == box.left <= box.right /\ box.bottom <= box.top
BoxInputs(boxes, xres, yres) ==
  \E n \in Lengths :
    \E bbs \in [1..n -> {box \in boxes : WellFormedBox(box)}],
       rx \in xres, ry \in yres :
      Entry(Args([k \in 1..n |-> PlainItem(k, Some(26917))], None, Some(rx), Some(ry),
                 None, Some(bbs), TRUE))

(* `bboxes` and `shapes` supplied together, each shape the size of its box in  *)
(* pixels at one resolution for both axes (rounded down where the size is not *)
(* a whole number of pixels)                                                  *)
DiagonalBoxes == {BoundingBox(l, l, r, r) : l \in Coords, r \in Coords}
ShapeOfBox(box, rx, ry) == <<(box.top - box.bottom) \div ry, (box.right - box.left) \div rx>>
FitInputs ==
  \E n \in Lengths :
    \E bbs \in [1..n -> {box \in DiagonalBoxes : box.left < box.right}],
       r \in Resolutions :
      Entry(Args([k \in 1..n |-> PlainItem(k, Some(26917))], None, Some(r), Some(r),
                 Some([k \in 1..n |-> ShapeOfBox(bbs[k], r, r)]), Some(bbs), TRUE))

(* no `bboxes`: items with and without proj:bbox, with and without bbox *)
SourceItem(k, kind) ==
  StacItem(IdOf(k),
           Some(Properties(Some(26918), IF kind.proj THEN Some(ProjBoxAt(k)) ELSE None,
                           Some(ShapeAt(k)), Some(Trn6(1, 1)))),
           IF kind.native THEN Some(NativeBoxAt(k)) ELSE None, Some(OneBand))
SourceInputs ==
  \E n \in Lengths :
    \E kinds \in [1..n -> [proj : BOOLEAN, native : BOOLEAN]],
       c \in {None, Some(from_epsg(26918)), Some(CustomCrs)} :
      Entry(Args([k \in 1..n |-> SourceItem(k, kinds[k])], c, Some(1), Some(1), None, None, TRUE))

(* items with 0..MaxBands named bands each *)
BandLists == UNION {[1..m -> {Band(nm) : nm \in Names}] : m \in 0..MaxBands}
BandItem(k, bands) ==
  StacItem(IdOf(k),
           Some(Properties(Some(26917), Some(ProjBoxAt(k)), Some(ShapeAt(k)), Some(Trn6(1, 1)))),
           Some(NativeBoxAt(k)), Some(Image(HttpUrl, bands)))
BandInputs ==
  \E n \in Lengths : \E bands \in [1..n -> BandLists] :
    Entry(Args([k \in 1..n |-> BandItem(k, bands[k])], None, None, None, None, None, TRUE))

(* items of two bands at each kind of URL, with and without add_prefix *)
UrlItem(k, href) ==
  StacItem(IdOf(k),
           Some(Properties(Some(26917), Some(ProjBoxAt(k)), Some(ShapeAt(k)), Some(Trn6(1, 1)))),
           Some(NativeBoxAt(k)), Some(Image(href, <<Band("red"), Band("green")>>)))
UrlInputs ==
  \E n \in Lengths : \E hrefs \in [1..n -> Urls], prefix \in BOOLEAN :
    Entry(Args([k \in 1..n |-> UrlItem(k, hrefs[k])], None, None, None, None, None, prefix))

Init ==
  \/ EmptyInputs
  \/ LengthInputs
  \/ CrsInputs
  \/ FieldInputs
  \/ BoxInputs(BoxesAlongX, Resolutions, {1})
  \/ BoxInputs(BoxesAlongY, {1}, Resolutions)
  \/ BoxInputs(CornerBoxes, Resolutions, Resolutions)
  \/ FitInputs
  \/ SourceInputs
  \/ BandInputs
  \/ UrlInputs

Spec == Init /\ [][Next]_vars

(* ---- properties ---- *)
Final == pc \in {"raised", "done"}
N == Len(stac_items)
CrsGiven == ~IsNone(args.crs)
ResGiven == ~IsNone(args.res_x) /\ ~IsNone(args.res_y)
BboxesGiven == ~IsNone(args.bboxes)
ShapesGiven == ~IsNone(args.shapes)

(* C1: a call with no items always ends in the EmptyInput error             *)
(* (ValueError 'Must provide at least one stac item'), whatever crs, res_x, *)
(* res_y, bboxes and shapes are; no other validation comes first and no     *)
(* descriptor is returned.                                                  *)
C1_EmptyInputFails ==
  (N = 0 /\ pc # "check_items") =>
    (pc = "raised" /\ error = EmptyInput /\ error.type = "ValueError" /\ result = None)
(* no items, with bboxes of a length that would otherwise be a mismatch and *)
(* no CRS anywhere                                                          *)
C1_Witness ==
  /\ N = 0 /\ pc = "raised" /\ error = EmptyInput
  /\ ~CrsGiven /\ ~ResGiven
  /\ BboxesGiven /\ Len(Get(args.bboxes)) > 0
  /\ ShapesGiven /\ Len(Get(args.shapes)) # Len(Get(args.bboxes))

(* C2: with N >= 1 items and crs, res_x, res_y supplied, bboxes of length   *)
(* k # N ends the call in LengthMismatch "k != N"; bboxes of length N and   *)
(* shapes of length k # N does too.  The items' own fields play no part: it *)
(* holds for items without properties or assets.                            *)
C2_LengthMismatch ==
  (N >= 1 /\ CrsGiven /\ ResGiven) =>
    /\ (BboxesGiven /\ Len(Get(args.bboxes)) # N
        /\ pc \notin {"check_items", "resolve_crs", "resolve_res", "resolve_bboxes"})
         => (pc = "raised" /\ result = None
             /\ error = LengthMismatch("bboxes", Len(Get(args.bboxes)), N)
             /\ error.type = "ValueError" /\ error.a = Len(Get(args.bboxes)) /\ error.b = N)
    /\ (BboxesGiven /\ Len(Get(args.bboxes)) = N /\ ShapesGiven /\ Len(Get(args.shapes)) # N
        /\ pc \notin {"check_items", "resolve_crs", "resolve_res", "resolve_bboxes",
                      "resolve_shapes"})
         => (pc = "raised" /\ result = None
             /\ error = LengthMismatch("shapes", Len(Get(args.shapes)), N)
             /\ error.type = "ValueError" /\ error.a = Len(Get(args.shapes)) /\ error.b = N)
(* more shapes than items, for a list that holds an item without properties *)
(* or assets                                                                *)
C2_Witness ==
  /\ pc = "raised" /\ CrsGiven /\ ResGiven
  /\ BboxesGiven /\ Len(Get(args.bboxes)) = N
  /\ ShapesGiven /\ Len(Get(args.shapes)) > N
  /\ error = LengthMismatch("shapes", Len(Get(args.shapes)), N)
  /\ \E k \in DOMAIN stac_items : stac_items[k] = BareItem(k)

(* the CRS code of the mosaic as it is specified: that of the crs argument   *)
(* if given, else the one the first item declares                           *)
MosaicCode ==
  IF CrsGiven THEN Get(args.crs).code
  ELSE Get(stac_items[1].properties)["proj:epsg"]
Declares(k) ==
  /\ ~IsNone(stac_items[k].properties)
  /\ ~IsNone(Get(stac_items[k].properties)["proj:epsg"])
DeclaredCode(k) == Get(stac_items[k].properties)["proj:epsg"]
Mismatching == {k \in DOMAIN stac_items : Declares(k) /\ DeclaredCode(k) # MosaicCode}
CodeResolved == N >= 1 /\ (CrsGiven \/ Declares(1))

(* the first item to declare another CRS, and the exception that names it *)
C3_First == Min(Mismatching)
C3_Error ==
  Exc("ValueError", "CrsMismatch", "same CRS", Get(DeclaredCode(C3_First)),
      IF IsNone(MosaicCode) THEN 0 ELSE Get(MosaicCode),
      stac_items[C3_First].id, C3_First - 1)
(* C3: CRS validation is per item.  (a) No descriptor is returned when some *)
(* item declares a CRS code other than the mosaic's.  (b) A CrsMismatch     *)
(* names the first such item in input order (its id and 0-based position)   *)
(* and both codes, so an item that declares no CRS never causes it.  (c)    *)
(* When every earlier step has passed and the loop comes to the first such  *)
(* item, the call ends there in CrsMismatch.                                *)
C3_CrsMismatch ==
  /\ [](pc = "done" => (Mismatching = {} /\ ~IsNone(result)))
  /\ []((pc = "raised" /\ error.kind = "CrsMismatch") =>
          (CodeResolved /\ Mismatching # {} /\ error = C3_Error /\ result = None))
  /\ [][(pc = "place" /\ CodeResolved /\ Mismatching # {} /\ i + 1 = C3_First)
          => (pc' = "raised" /\ error' = C3_Error /\ result' = None)]_vars
(* the second item is the first to declare another CRS, after a first item  *)
(* that declares none                                                       *)
C3_Witness ==
  /\ pc = "raised" /\ error.kind = "CrsMismatch" /\ error.pos = 1
  /\ N >= 2 /\ ~Declares(1) /\ CrsGiven

(* C4: without the crs argument the mosaic CRS is the one the first item    *)
(* declares; if the first item declares none the call ends in MissingField  *)
(* (KeyError naming 'proj:epsg') even when a later item declares one, and   *)
(* nothing is returned.  With the crs argument the first item's CRS field   *)
(* is never required.                                                       *)
C4_MissingCrs ==
  /\ (N >= 1 /\ ~CrsGiven /\ pc \notin {"check_items", "resolve_crs"}) =>
       IF Declares(1)
         THEN crs_code = DeclaredCode(1) /\ error # MissingCrs
         ELSE pc = "raised" /\ error = MissingCrs /\ error.type = "KeyError"
              /\ error.what = "proj:epsg" /\ result = None
  /\ CrsGiven => (error # MissingCrs /\ (pc \notin {"check_items", "resolve_crs"} /\ N >= 1
                                          => crs_code = Get(args.crs).code))
(* no crs argument, a first item without the field, a second item with it *)
C4_Witness ==
  /\ pc = "raised" /\ error = MissingCrs /\ ~CrsGiven
  /\ N >= 2 /\ ~Declares(1) /\ Declares(2)

(* ---- well-formed calls ---- *)
HasImage(k) == ~IsNone(stac_items[k].image)
BandCount(k) == Len(Get(stac_items[k].image).bands)
HasProps(k) == ~IsNone(stac_items[k].properties)
Carries(k, key) == HasProps(k) /\ ~IsNone(Get(stac_items[k].properties)[key])
Items == DOMAIN stac_items
(* every field the call reads is there, supplied lists have one entry per    *)
(* item, supplied resolutions are positive, boxes have left <= right and     *)
(* bottom <= top, all items have the same number of bands, and no item       *)
(* declares a CRS other than the mosaic's                                    *)
WellFormedCall ==
  /\ N >= 1
  /\ CrsGiven \/ Declares(1)
  /\ ResGiven \/ Carries(1, "proj:transform")
  /\ ~IsNone(args.res_x) => Get(args.res_x) > 0
  /\ ~IsNone(args.res_y) => Get(args.res_y) > 0
  /\ IF BboxesGiven
       THEN Len(Get(args.bboxes)) = N /\ \A k \in Items : WellFormedBox(Get(args.bboxes)[k])
       ELSE \/ \A k \in Items : Carries(k, "proj:bbox")
            \/ \A k \in Items : HasProps(k) /\ ~Carries(k, "proj:bbox")
                                /\ ~IsNone(stac_items[k].bbox)
  /\ IF ShapesGiven THEN Len(Get(args.shapes)) = N
                    ELSE \A k \in Items : Carries(k, "proj:shape")
  /\ \A k \in Items : HasImage(k)
  /\ \A k \in Items : BandCount(k) = BandCount(1)
  /\ Mismatching = {}

Lefts == {Get(bboxes)[k].left : k \in Items}
Bottoms == {Get(bboxes)[k].bottom : k \in Items}
Rights == {Get(bboxes)[k].right : k \in Items}
Tops == {Get(bboxes)[k].top : k \in Items}
(* S is not empty and x is its least (greatest) element *)
Least(x, S) == x \in S /\ \A y \in S : x <= y
Greatest(x, S) == x \in S /\ \A y \in S : x >= y
ExtentWidth == (CHOOSE x \in Rights : Greatest(x, Rights)) - (CHOOSE x \in Lefts : Least(x, Lefts))
ExtentHeight == (CHOOSE y \in Tops : Greatest(y, Tops)) - (CHOOSE y \in Bottoms : Least(y, Bottoms))

(* C5 as stated: every call with a non-empty list of well-formed items and  *)
(* consistent CRS succeeds with rasterXSize > 0 and rasterYSize > 0, also   *)
(* when the extent is narrower or shorter than one resolution unit.         *)
C5_Original ==
  (Final /\ WellFormedCall) =>
    (pc = "done" /\ Get(result).rasterXSize > 0 /\ Get(result).rasterYSize > 0)
(* C5, amended: such a call succeeds with rasterXSize >= 0 and              *)
(* rasterYSize >= 0, and each is positive exactly when the unioned extent   *)
(* spans at least one resolution unit on its axis.                          *)
C5_SizeNonNegative ==
  (Final /\ WellFormedCall) =>
    /\ pc = "done" /\ error = NoError
    /\ Get(result).rasterXSize >= 0
    /\ Get(result).rasterYSize >= 0
    /\ Get(result).rasterXSize > 0 <=> ExtentWidth >= Get(res_x)
    /\ Get(result).rasterYSize > 0 <=> ExtentHeight >= Get(res_y)
(* two items whose union is one unit wide at a resolution of two: width 0 *)
C5_Witness ==
  /\ pc = "done" /\ WellFormedCall /\ N >= 2
  /\ ExtentWidth > 0 /\ ExtentWidth < Get(res_x)
  /\ Get(result).rasterXSize = 0 /\ Get(result).rasterYSize > 0

GridBuilt == pc \in {"init_sources", "place", "render", "emit", "done"}
(* C6: the mosaic extent computed by _build_bbox contains every input box,  *)
(* and each of its four coordinates is that coordinate of some input box    *)
(* (so it is the componentwise min left, min bottom, max right, max top).   *)
C6_ExtentIsUnion ==
  GridBuilt =>
    /\ Least(out_bbox.left, Lefts)
    /\ Least(out_bbox.bottom, Bottoms)
    /\ Greatest(out_bbox.right, Rights)
    /\ Greatest(out_bbox.top, Tops)
    /\ \A k \in Items :
         /\ out_bbox.left <= Get(bboxes)[k].left
         /\ out_bbox.bottom <= Get(bboxes)[k].bottom
         /\ out_bbox.right >= Get(bboxes)[k].right
         /\ out_bbox.top >= Get(bboxes)[k].top
(* a finished build whose extent is no single input box *)
C6_Witness ==
  /\ pc = "done" /\ N >= 2
  /\ \A k \in Items : out_bbox # Get(bboxes)[k]
  /\ \E k \in Items : Get(bboxes)[k].top < out_bbox.top
  /\ \E k \in Items : Get(bboxes)[k].bottom > out_bbox.bottom

(* the items that have a band n, in input order: the items whose sources    *)
(* band block n holds                                                       *)
AtLeastBands(n, k) == BandCount(k) >= n
Contributors(n) == SelectSeq([k \in Items |-> k], LAMBDA k : AtLeastBands(n, k))
(* q is num/den truncated toward zero, for den > 0 *)
IsTruncation(q, num, den) ==
  IF num >= 0 THEN den * q <= num /\ num < den * q + den
              ELSE den * q >= num /\ num > den * q - den
BandMajor ==
  LET bands == Get(result).bands
  IN /\ Len(bands) = BandCount(1)
     /\ \A n \in DOMAIN bands :
          /\ bands[n].band = n
          /\ Len(bands[n].sources) = N
          /\ \A k \in Items :
               LET src == bands[n].sources[k]
                   height == Get(shapes)[k][1]
                   width == Get(shapes)[k][2]
               IN /\ src.SourceBand = n
                  /\ src.SrcRect = [xOff |-> 0, yOff |-> 0, xSize |-> width, ySize |-> height]
                  /\ src.DstRect.xSize = width
                  /\ src.DstRect.ySize = height
SameBandCounts == \A k \in Items : HasImage(k) /\ BandCount(k) = BandCount(1)
(* C8 as stated: every successful build is band-major in this sense, also   *)
(* when the items do not all have the same number of bands.                 *)
C8_Original == pc = "done" => BandMajor
(* C8, amended: every successful build over items that all have the same    *)
(* number of bands is band-major in this sense.                             *)
C8_BandMajor == (pc = "done" /\ SameBandCounts) => BandMajor
(* several items of several bands each *)
C8_Witness ==
  /\ pc = "done" /\ SameBandCounts /\ N >= 2 /\ BandCount(1) >= 2
  /\ Len(Get(result).bands) >= 2
  /\ Get(shapes)[1] # Get(shapes)[2]

(* C9: the ColorInterp label of band block n is the name of band n of the   *)
(* first item, whatever the band names of the later items are.              *)
C9_LabelsOfFirstItem ==
  pc = "done" =>
    \A n \in DOMAIN Get(result).bands :
      /\ n <= BandCount(1)
      /\ Get(result).bands[n].ColorInterp = Get(stac_items[1].image).bands[n].name

(* every item has a proj:bbox or a bbox; the box of each item, chosen item by item *)
EveryItemHasABox == \A k \in Items : Carries(k, "proj:bbox") \/ ~IsNone(stac_items[k].bbox)
PerItemBoxes ==
  [k \in Items |->
     IF Carries(k, "proj:bbox")
       THEN Get(Get(stac_items[k].properties)["proj:bbox"])
       ELSE transform_bounds(Get(crs), Get(stac_items[k].bbox))]
(* C10: without the bboxes argument the box of item k is its proj:bbox when *)
(* it has one and its bbox reprojected into the mosaic CRS when it has not, *)
(* whatever the other items carry; the list has one box per item, in item   *)
(* order.                                                                   *)
C10_BoxPerItem ==
  (N >= 1 /\ ~BboxesGiven /\ EveryItemHasABox
   /\ pc \notin {"check_items", "resolve_crs", "resolve_res", "resolve_bboxes"}) =>
    IF IsNone(bboxes)
      THEN pc = "raised" /\ error.what \notin {"proj:bbox", "bbox"}
      ELSE Len(Get(bboxes)) = N /\ Get(bboxes) = PerItemBoxes

(* an HTTP(S) scheme at the head of a URL: "http://" or "https://" *)
HttpScheme == <<"h", "t", "t", "p", ":", "/", "/">>
HttpsScheme == <<"h", "t", "t", "p", "s", ":", "/", "/">>
BeginsWithHttpScheme(url) == startswith(url, HttpScheme) \/ startswith(url, HttpsScheme)
HrefOf(k) == Get(stac_items[k].image).href
(* C11: in a successful build the SourceFilename of every source of item k, *)
(* in every band block, is "/vsicurl/" followed by the item's href when     *)
(* add_prefix is set and the href begins with an HTTP(S) scheme, and the    *)
(* href unchanged otherwise: for every href that does not begin with an     *)
(* HTTP(S) scheme, and for every href when add_prefix is not set.           *)
C11_UrlRewriting ==
  pc = "done" =>
    \A n \in DOMAIN Get(result).bands :
      LET sources == Get(result).bands[n].sources
      IN /\ Len(sources) = Len(Contributors(n))
         /\ \A m \in DOMAIN sources :
              LET href == HrefOf(Contributors(n)[m])
              IN sources[m].SourceFilename =
                   IF add_prefix /\ BeginsWithHttpScheme(href) THEN VsiCurl \o href ELSE href

(* the corners of the extent of all boxes *)
ExtentLeft == CHOOSE x \in Lefts : Least(x, Lefts)
ExtentTop == CHOOSE y \in Tops : Greatest(y, Tops)
(* n is num/den rounded down, for den > 0 *)
IsFloor(n, num, den) == n * den <= num /\ num < (n + 1) * den
ItemOffset(k) == Offset(out_transform, Get(bboxes)[k])
(* the size of a rectangle in pixels is exactly the size of the box in      *)
(* units of the resolution                                                  *)
Fits(rect, bbox) ==
  /\ rect.xSize * Get(res_x) = bbox.right - bbox.left
  /\ rect.ySize * Get(res_y) = bbox.top - bbox.bottom
====
